---- MODULE Spec2Model ----
(***************************************************************************)
(* TaskFlow: the in-memory priority queue (task_queue.py), the worker loop *)
(* (task_worker.py), the file storage it persists to (file_storage.py) and *)
(* the API handlers that reach the queue (api_server.py); the event bus    *)
(* and its task handlers (event_bus.py, event_handlers.py); the load       *)
(* balancer (load_balancer.py); the SQS-backed queue (sqs_queue.py); the   *)
(* two storage backends by themselves (file_storage.py, s3_storage.py).    *)
(*                                                                         *)
(* A Task object is shared by reference between the heap, the index and    *)
(* the worker, so the heap holds task ids and every field lives in one     *)
(* place, tasks[id].  Every critical section of the queue runs under the   *)
(* queue's lock and is one atomic action; Condition.wait releases the lock *)
(* and is split at that point.                                             *)
(***************************************************************************)
EXTENDS Integers, Sequences, FiniteSets, Bags, TLC

\* ---------------------------------------------------------------- bounds
MaxTasksQ == 3      \* enqueue calls in the queue-only specification
MaxTasks == 2       \* enqueue calls in the whole-system specification
MaxPrio == 2        \* priorities drawn from 1..MaxPrio
MaxPushes == 2      \* heap pushes (enqueue and re-queue) in the whole-system specification
MaxRetries == 2     \* retry_count and max_retries of an event payload are in 0..MaxRetries
MaxEvents == 4      \* events kept in the bus history
MaxRequests == 3    \* requests the load balancer forwards
MaxExtraLoops == 2  \* worker loop threads tracked besides the first
MaxPublished == 1002    \* publish calls in the history specification
MaxDispatch == 2        \* publish calls in the dispatch specification
MaxRequeuePushes == 4   \* heap pushes in the re-queue specifications
MaxReplayPublished == 101   \* publish calls in the replay specification
MaxStarts == 2      \* calls of LoadBalancer.start
MaxGets == 3        \* calls of get_task_metadata
MaxClock == 700     \* seconds the clock runs

None == 0
IdBound == IF MaxTasksQ > MaxTasks THEN MaxTasksQ ELSE MaxTasks
Ids == 1..IdBound
Prios == 1..MaxPrio

PENDING == "pending"
PROCESSING == "processing"
COMPLETED == "completed"
FAILED == "failed"
TaskStatus == {PENDING, PROCESSING, COMPLETED, FAILED}

Worker == "w"
Clients == {"d1", "d2"}
Threads == Clients \cup {Worker}
Starters == {"s1", "s2"}
Timeouts == {"none", "zero", "timed"}
DEQUEUE_TIMEOUT == "timed"

VARIABLES
    tasks,      \* TaskQueue._tasks: id -> [priority, status]
    heap,       \* TaskQueue._queue: the heapq list, as task ids
    nextId,     \* the next fresh id (uuid4)
    waiters,    \* Condition._waiters: threads blocked in wait, oldest first
    dpc,        \* per thread: position inside dequeue
    dto,        \* per thread: the timeout argument of its dequeue call
    dret,       \* per thread: what its last dequeue returned (None or an id)
    running,    \* TaskWorker.running
    wpc,        \* position of the worker thread in _worker_loop
    wtask,      \* the worker's local variable task
    joining,    \* a stop() call is blocked in worker_thread.join()
    storage,    \* FileStorage: id -> persisted status, or "none"
    delivered,  \* history: how many times dequeue returned each id
    pushes,     \* history: number of heap pushes so far
    raised,     \* history: the processor has raised at least once
    delResp,    \* history: status code of the last DELETE /tasks/{id}
    event_history,  \* EventBus.event_history, oldest first
    handlerThreads, \* bag of the handler threads started and not yet ended,
                    \* each <<handler, event>>
    subscribers,    \* EventBus.subscribers: event type -> list of handlers
    published,      \* number of publish calls so far (the last event id drawn)
    handlerErrors,  \* history: the <<handler, event id>> runs that raised
    istatus,        \* LoadBalancer.instances[i].status
    healthy_instances,  \* LoadBalancer.healthy_instances, as instance numbers
    cyclePos,       \* LoadBalancer.instance_cycle: 0-based position of the next item
    hpc,            \* health_check_loop: the instance it checks next, then the update
    served,         \* history: requests forwarded to each instance since the
                    \* statuses and the healthy list last changed
    forwarded,      \* history: outcome of the last forward_request
    spc,            \* per thread calling start(): its position inside start
    extraLoops,     \* worker loop threads alive besides the one wpc follows
    remote,         \* the SQS queue: per task id, the state of its message
    mirror,         \* SQSTaskQueue._tasks: id -> status, or "none"
    epc,            \* SQSTaskQueue.enqueue: the id whose message was sent and
                    \* which is not yet stored in _tasks, or None
    sqsResp,        \* history: how the last SQSTaskQueue.enqueue call ended
    cpc,            \* POST /tasks: the id a request has enqueued and not yet
                    \* read back, or None
    files,          \* FileStorage: path under tasks_dir -> text of the file
    bucket,         \* S3Storage: object key -> body
    lastOp,         \* history: the last storage call: backend, kind, task id
    ahead,          \* history: per re-queued task, the tasks of its priority
                    \* that were pending at its re-queue, each with the number
                    \* of times it had been returned by then
    ended,          \* history: per task, how many of the threads it was
                    \* returned to have written their terminal status
    replayed,       \* history: the ids of the events the last replay_events
                    \* call handed to _notify_subscribers, in call order
    request_stop,   \* LoadBalancer.request_stop
    session,        \* LoadBalancer.session: "none", or the ClientSession,
                    \* "open" or "closed"
    loops,          \* the health_check_loop tasks start() created, in order
                    \* of creation: where each one is
    stats,          \* LoadBalancer.stats without the average
    now,            \* the clock, in seconds
    db,             \* the tasks table: task id -> "none" or the row
    caches,         \* the TaskCache objects made so far, in order of
                    \* construction: the cache dict of each
    dbReads,        \* history: number of load_task_metadata calls per id
    loaded,         \* history: per id, the last row a get_task_metadata call
                    \* loaded from the database and when, or nothing
    lastGet         \* history: the last get_task_metadata call: id, value
                    \* returned, and where it came from

qvars == <<tasks, heap, nextId, waiters, dpc, dto, dret, delivered, pushes>>
wvars == <<running, wpc, wtask, joining, storage, raised>>
evars == <<event_history, handlerThreads, subscribers, published, handlerErrors>>
lvars == <<istatus, healthy_instances, cyclePos, hpc, served, forwarded>>
rvars == <<spc, extraLoops>>
svars == <<remote, mirror, epc, sqsResp>>
cvars == <<cpc>>
fvars == <<files, bucket, lastOp>>
hvars == <<ahead, ended>>
pvars == <<replayed>>
bvars == <<request_stop, session, loops, stats>>
kvars == <<now, db, caches, dbReads, loaded, lastGet>>
nvars == <<hvars, pvars, bvars, kvars>>
xvars == <<nvars, evars, lvars, rvars, svars, cvars, fvars>>
avars == <<delResp, xvars>>
vars == <<tasks, heap, nextId, waiters, dpc, dto, dret, running, wpc, wtask,
          joining, storage, delivered, pushes, raised, delResp,
          event_history, handlerThreads, subscribers, published, handlerErrors,
          istatus, healthy_instances, cyclePos, hpc, served, forwarded,
          spc, extraLoops, remote, mirror, epc, sqsResp, cpc, files, bucket, lastOp,
          ahead, ended, replayed, request_stop, session, loops, stats,
          now, db, caches, dbReads, loaded, lastGet>>

\* ------------------------------------------------------------ Task, heapq
\* Task.__lt__: lower priority number sorts first; nothing else is compared
LtMutReversed(ts, a, b) == ts[a].priority > ts[b].priority
Lt(ts, a, b) == ts[a].priority < ts[b].priority

\* heapq._siftdown(heap, startpos, pos) with newitem already taken out of pos
RECURSIVE siftdown(_, _, _, _, _)
siftdown(ts, h, startpos, pos, newitem) ==
    IF pos > startpos
    THEN LET parentpos == (pos - 1) \div 2
             parent == h[parentpos + 1]
         IN IF Lt(ts, newitem, parent)
            THEN siftdown(ts, [h EXCEPT ![pos + 1] = parent], startpos, parentpos, newitem)
            ELSE [h EXCEPT ![pos + 1] = newitem]
    ELSE [h EXCEPT ![pos + 1] = newitem]

\* heapq._siftup(heap, pos): bubble the smaller child up to a leaf, then sift down
RECURSIVE siftupLoop(_, _, _, _)
siftupLoop(ts, h, pos, newitem) ==
    LET endpos == Len(h)
        childpos == 2 * pos + 1
        rightpos == childpos + 1
    IN IF childpos < endpos
       THEN LET c == IF rightpos < endpos /\ ~Lt(ts, h[childpos + 1], h[rightpos + 1])
                     THEN rightpos ELSE childpos
            IN siftupLoop(ts, [h EXCEPT ![pos + 1] = h[c + 1]], c, newitem)
       ELSE siftdown(ts, h, 0, pos, newitem)

\* heapq.heappush(heap, item)
heappush(ts, h, item) == siftdown(ts, Append(h, item), 0, Len(h), item)

\* heapq.heappop(heap): the list that is left; the returned item is h[1]
heappopMutKeepRoot(ts, h) == SubSeq(h, 1, Len(h) - 1)
heappop(ts, h) ==
    LET lastelt == h[Len(h)]
        rest == SubSeq(h, 1, Len(h) - 1)
    IN IF rest # <<>> THEN siftupLoop(ts, [rest EXCEPT ![1] = lastelt], 0, lastelt)
       ELSE rest

InHeap(id) == \E k \in 1..Len(heap) : heap[k] = id
HeapCount(id) == Cardinality({k \in 1..Len(heap) : heap[k] = id})

\* TaskQueue.get_task
get_task(id) == IF id \in DOMAIN tasks THEN id ELSE None

\* TaskQueue.size
size == Len(heap)

\* Condition.notify(): wake the oldest waiter, if any
NotifiedWaiters == IF waiters = <<>> THEN waiters ELSE Tail(waiters)
NotifiedDpc == IF waiters = <<>> THEN dpc
               ELSE [dpc EXCEPT ![Head(waiters)] =
                        IF @ = "waiting" THEN "notified" ELSE @]

\* ids of the tasks sent to the remote queue
SqsIds == 1..MaxTasks

\* the three backends of create_load_balancer_app, in list order
NInstances == 3
Instances == 1..NInstances
HEALTHY == "healthy"
UNHEALTHY == "unhealthy"
UNKNOWN == "unknown"

\* CachedTaskOperations: task ids, the rows of the tasks table, the TTL
\* passed to TaskCache.set, and the step of the clock
CacheIds == {"t1", "t2"}
Rows == {"row1", "row2"}
TTL_SECONDS == 300
ClockStep == 100

\* the health_check_loop tasks, numbered as start() creates them
LoopIds == 1..MaxStarts

\* EventBus: the event types, the history size, the handlers
TASK_STARTED == "task_started"
TASK_COMPLETED == "task_completed"
TASK_FAILED == "task_failed"
TASK_CREATED == "task_created"
TASK_UPDATED == "task_updated"
SYSTEM_HEALTH_CHECK == "system_health_check"
EventType == {TASK_STARTED, TASK_COMPLETED, TASK_FAILED, TASK_CREATED, TASK_UPDATED,
              SYSTEM_HEALTH_CHECK}
PayloadIds == {1, 2}            \* task_id values carried by event payloads
RetryCounts == 0..MaxRetries

\* EventBus.max_history, the maxlen of the event_history deque
max_history == 1000

\* the subscriptions made when event_handlers.py is imported
ModuleSubscribers ==
    [ty \in EventType |->
        CASE ty = TASK_CREATED -> <<"handle_task_created">>
          [] ty = TASK_COMPLETED -> <<"handle_task_completed">>
          [] ty = TASK_FAILED -> <<"handle_task_failed">>
          [] ty = SYSTEM_HEALTH_CHECK -> <<"handle_health_check">>
          [] OTHER -> <<>>]

\* handlers that callers of subscribe bring along
CallerHandlers == {"h1", "h2"}

\* ------------------------------------------------------------------ Init
Init ==
    /\ tasks = <<>>
    /\ heap = <<>>
    /\ nextId = 1
    /\ waiters = <<>>
    /\ dpc = [t \in Threads |-> "idle"]
    /\ dto = [t \in Threads |-> "none"]
    /\ dret = [t \in Threads |-> None]
    /\ running = FALSE
    /\ wpc = "nothread"
    /\ wtask = None
    /\ joining = FALSE
    /\ storage = [i \in Ids |-> "none"]
    /\ delivered = [i \in Ids |-> 0]
    /\ pushes = 0
    /\ raised = FALSE
    /\ delResp = "none"
    /\ event_history = <<>>
    /\ handlerThreads = EmptyBag
    /\ subscribers = ModuleSubscribers
    /\ published = 0
    /\ handlerErrors = {}
    /\ istatus = [i \in Instances |-> UNKNOWN]
    /\ healthy_instances = <<>>
    /\ cyclePos = 0
    /\ hpc = 1
    /\ served = [i \in Instances |-> 0]
    /\ forwarded = [code |-> "none", instance |-> None]
    /\ spc = [c \in Starters |-> "idle"]
    /\ extraLoops = 0
    /\ remote = [i \in SqsIds |-> "none"]
    /\ mirror = [i \in SqsIds |-> "none"]
    /\ epc = None
    /\ sqsResp = "none"
    /\ cpc = None
    /\ files = <<>>
    /\ bucket = <<>>
    /\ lastOp = <<"none", "none", <<>>>>
    /\ ahead = [i \in Ids |-> {}]
    /\ ended = [i \in Ids |-> 0]
    /\ replayed = <<>>
    /\ request_stop = FALSE
    /\ session = "none"
    /\ loops = [l \in LoopIds |-> <<"none">>]
    /\ stats = [total_requests |-> 0, successful_requests |-> 0, failed_requests |-> 0]
    /\ now = 0
    /\ db = [id \in CacheIds |-> "none"]
    /\ caches = <<<<>>>>
    /\ dbReads = [id \in CacheIds |-> 0]
    /\ loaded = [id \in CacheIds |-> <<>>]
    /\ lastGet = <<>>

\* --------------------------------------------------- TaskQueue.enqueue
\* the index after self._tasks[task.id] = task
IndexPut(ts, id, p) == ts @@ (id :> [priority |-> p, status |-> PENDING])

\* the call, as the queue and the worker see it
EnqueueTask(p) ==
    LET id == nextId
        ts == IndexPut(tasks, id, p)
    IN /\ nextId \in Ids
       /\ nextId' = nextId + 1
       /\ tasks' = ts
       /\ heap' = heappush([i \in DOMAIN tasks \cup {id} |->
                               IF i = id THEN [priority |-> p] ELSE tasks[i]],
                           heap, id)
       /\ waiters' = NotifiedWaiters
       /\ dpc' = NotifiedDpc
       /\ pushes' = pushes + 1
       /\ UNCHANGED <<dto, dret, delivered>>
       /\ UNCHANGED wvars

Enqueue(p) ==
    /\ EnqueueTask(p)
    /\ UNCHANGED avars

\* enqueue(name, priority, payload) called with a name of some length: the
\* name goes into the Task unread, and neither it nor the priority is tested
EnqueueCall(nameLen, p) == Enqueue(p)

\* --------------------------------------------------- TaskQueue.dequeue
\* what the caller does with the value dequeue returned: a client thread just
\* keeps it; the worker loop goes back to the top on None, else processes it
Return(t, r) ==
    /\ dret' = [dret EXCEPT ![t] = r]
    /\ dto' = [dto EXCEPT ![t] = "none"]
    /\ wpc' = IF t = Worker THEN (IF r = None THEN "top" ELSE "process") ELSE wpc
    /\ wtask' = IF t = Worker THEN r ELSE wtask

\* task.status = PROCESSING; self._tasks[task.id] = task
MarkProcessingMutDrop(ts, id) == [i \in DOMAIN ts \ {id} |-> ts[i]]
MarkProcessing(ts, id) ==
    [i \in DOMAIN ts \cup {id} |->
        IF i = id THEN [ts[i] EXCEPT !.status = PROCESSING] ELSE ts[i]]

\* the body of dequeue with the lock held: the while loop, then the pop
DeqBody(t, to, ws) ==
    IF heap # <<>>
    THEN LET id == heap[1]
         IN /\ heap' = heappop(tasks, heap)
            /\ tasks' = MarkProcessing(tasks, id)
            /\ delivered' = [delivered EXCEPT ![id] = @ + 1]
            /\ dpc' = [dpc EXCEPT ![t] = "idle"]
            /\ waiters' = ws
            /\ Return(t, id)
    ELSE IF to = "zero"
    THEN /\ dpc' = [dpc EXCEPT ![t] = "idle"]
         /\ waiters' = ws
         /\ Return(t, None)
         /\ UNCHANGED <<heap, tasks, delivered>>
    ELSE /\ dpc' = [dpc EXCEPT ![t] = "waiting"]
         /\ waiters' = Append(ws, t)
         /\ dto' = [dto EXCEPT ![t] = to]
         /\ UNCHANGED <<heap, tasks, delivered, dret, wpc, wtask>>

\* a thread calls dequeue(timeout)
DeqCall(t, to) ==
    /\ dpc[t] = "idle"
    /\ t = Worker => (wpc = "deq" /\ to = DEQUEUE_TIMEOUT)
    /\ DeqBody(t, to, waiters)
    /\ UNCHANGED <<nextId, pushes>>
    /\ UNCHANGED <<running, joining, storage, raised>>
    /\ UNCHANGED avars

\* wait() returned True: the notified thread has the lock again and re-checks
DeqWake(t) ==
    /\ dpc[t] = "notified"
    /\ DeqBody(t, dto[t], waiters)
    /\ UNCHANGED <<nextId, pushes>>
    /\ UNCHANGED <<running, joining, storage, raised>>
    /\ UNCHANGED avars

\* the timed wait's timer expires; the thread has not yet re-taken the lock
\* and is still listed in Condition._waiters
DeqTimeout(t) ==
    /\ dpc[t] = "waiting"
    /\ dto[t] = "timed"
    /\ dpc' = [dpc EXCEPT ![t] = "timedout"]
    /\ UNCHANGED <<tasks, heap, nextId, waiters, dto, dret, delivered, pushes>>
    /\ UNCHANGED wvars
    /\ UNCHANGED avars

\* wait() returns False once the lock is re-taken: dequeue returns None
DeqTimeoutRet(t) ==
    /\ dpc[t] = "timedout"
    /\ dpc' = [dpc EXCEPT ![t] = "idle"]
    /\ waiters' = SelectSeq(waiters, LAMBDA x : x # t)
    /\ Return(t, None)
    /\ UNCHANGED <<tasks, heap, nextId, delivered, pushes>>
    /\ UNCHANGED <<running, joining, storage, raised>>
    /\ UNCHANGED avars

\* ----------------------------------------- TaskQueue.update_task_status
\* the early return: a completed or failed task only accepts PENDING
RefusedFrom(current, s) ==
    current \in {COMPLETED, FAILED} /\ s \notin {PENDING}
Refused(id, s) == RefusedFrom(tasks[id].status, s)

\* the value update_task_status(id, s) returns
UpdateReturns(id, s) == id \in DOMAIN tasks /\ ~Refused(id, s)

\* the call, as the queue sees it; bound caps the heap pushes of a run
UpdateStatus(id, s, bound) ==
    /\ IF ~UpdateReturns(id, s)
       THEN UNCHANGED <<tasks, heap, waiters, dpc, pushes>>
       ELSE /\ tasks' = [tasks EXCEPT ![id].status = s]
            /\ IF s = PENDING
               THEN /\ pushes < bound
                    /\ heap' = heappush(tasks, heap, id)
                    /\ waiters' = NotifiedWaiters
                    /\ dpc' = NotifiedDpc
                    /\ pushes' = pushes + 1
               ELSE UNCHANGED <<heap, waiters, dpc, pushes>>
    /\ UNCHANGED <<nextId, dto, dret, delivered>>
    /\ UNCHANGED wvars

UpdateTaskStatus(id, s) ==
    /\ UpdateStatus(id, s, MaxPushes)
    /\ UNCHANGED avars

\* update_task_status(id, PENDING) on a failed task: the retry path.  The
\* tasks of the same priority that are pending at that moment are noted.
PendingPeers(id) ==
    {j \in DOMAIN tasks \ {id} :
        tasks[j].status = PENDING /\ tasks[j].priority = tasks[id].priority}
Requeue(id) ==
    /\ id \in DOMAIN tasks
    /\ tasks[id].status = FAILED
    /\ UpdateStatus(id, PENDING, MaxRequeuePushes)
    /\ ahead' = [ahead EXCEPT ![id] = {<<j, delivered[j]>> : j \in PendingPeers(id)}]
    /\ UNCHANGED ended
    /\ UNCHANGED <<delResp, pvars, bvars, kvars, evars, lvars, rvars, svars, cvars, fvars>>

\* a thread that dequeue returned the task to is done with it and writes the
\* terminal status into the Task object, as _worker_loop does after
\* task_processor returned
Outstanding(id) == delivered[id] - ended[id]
Finish(id, s) ==
    /\ id \in DOMAIN tasks
    /\ Outstanding(id) > 0
    /\ tasks' = [tasks EXCEPT ![id].status = s]
    /\ ended' = [ended EXCEPT ![id] = @ + 1]
    /\ UNCHANGED ahead
    /\ UNCHANGED <<heap, nextId, waiters, dpc, dto, dret, delivered, pushes>>
    /\ UNCHANGED wvars
    /\ UNCHANGED <<delResp, pvars, bvars, kvars, evars, lvars, rvars, svars, cvars, fvars>>

\* update_task_status called by any other thread, with any id and status
Update(id, s) ==
    /\ UpdateStatus(id, s, MaxRequeuePushes)
    /\ UNCHANGED avars

\* ------------------------------------------ api_server: DELETE /tasks/{id}
\* The handler answers 404 for an unknown id.  For a known id it calls
\* queue.delete_task, which TaskQueue does not define: the call raises
\* AttributeError before anything is removed and the request ends in a 500.
ApiDeleteTask(id) ==
    /\ id \in Ids
    /\ delResp' = IF get_task(id) = None THEN "404" ELSE "500"
    /\ UNCHANGED qvars
    /\ UNCHANGED wvars
    /\ UNCHANGED xvars

\* ------------------------------- api_server: PUT /tasks/{id}/status, GET /tasks
\* validate_task_status: TaskStatus(status) does not raise
validate_task_status(status) == status \in TaskStatus

\* request bodies: the four status values and a string that is none of them
StatusBodies == TaskStatus \cup {"banana"}

\* the status code PUT /tasks/{id}/status answers in the current state.  The
\* body model TaskStatusUpdate carries the pattern of the four values, so any
\* other string is answered by the framework with 422 before the handler
\* runs; in the handler a False from queue.update_task_status is a 404.
PutStatusCode(id, body) ==
    IF body \notin TaskStatus THEN 422
    ELSE IF ~validate_task_status(body) THEN 400
    ELSE IF UpdateReturns(id, body) THEN 200
    ELSE 404

\* the methods TaskQueue defines; calling any other raises AttributeError
TaskQueueMethods == {"enqueue", "dequeue", "get_task", "update_task_status",
                     "get_tasks_by_status", "size"}

\* the ids of the index in the order of the dict
IndexOrder == SelectSeq([i \in 1..(nextId - 1) |-> i], LAMBDA i : i \in DOMAIN tasks)

\* TaskQueue.get_tasks_by_status
get_tasks_by_status(s) == SelectSeq(IndexOrder, LAMBDA i : tasks[i].status = s)

\* tasks[:limit] for a limit >= 0
Truncate(seq, limit) == SubSeq(seq, 1, IF limit < Len(seq) THEN limit ELSE Len(seq))

\* the status parameter of a request that names none ('if status:' treats a
\* missing and an empty parameter alike)
NoStatus == ""

\* GET /tasks on the in-memory queue: with a status filter, 400 or the tasks
\* of that status; without one the handler calls queue.get_all_tasks(), the
\* AttributeError is not caught and the request ends in a 500
list_tasks(status, limit) ==
    IF status # NoStatus
    THEN IF ~validate_task_status(status)
         THEN [code |-> 400, tasks |-> <<>>]
         ELSE [code |-> 200, tasks |-> Truncate(get_tasks_by_status(status), limit)]
    ELSE IF "get_all_tasks" \in TaskQueueMethods
         THEN [code |-> 200, tasks |-> Truncate(IndexOrder, limit)]
         ELSE [code |-> 500, tasks |-> <<>>]

\* ------------------------------------------------ api_server: POST /tasks
\* the handler up to the return of queue.enqueue; the request model has let
\* the priority through
CreateEnqueue(p) ==
    /\ cpc = None
    /\ EnqueueTask(p)
    /\ cpc' = nextId
    /\ UNCHANGED <<delResp, nvars, evars, lvars, rvars, svars, fvars>>

\* the answer of the handler: queue.get_task(task_id) reads the Task as it
\* is by now, and task_to_response copies its fields into the 201 response
CreateResponse ==
    IF get_task(cpc) = None
    THEN [code |-> 500, status |-> "none"]
    ELSE [code |-> 201, status |-> tasks[cpc].status]

\* the rest of the handler: read the task back and answer
CreateRead ==
    /\ cpc # None
    /\ cpc' = None
    /\ UNCHANGED <<qvars, wvars, delResp, nvars, evars, lvars, rvars, svars, fvars>>

\* ------------------------------------------------------------- TaskWorker
\* start(): nothing happens while running is set
Start ==
    /\ ~running
    /\ ~joining
    /\ wpc = "nothread"
    /\ running' = TRUE
    /\ wpc' = "top"
    /\ UNCHANGED <<wtask, joining, storage, raised>>
    /\ UNCHANGED qvars
    /\ UNCHANGED avars

\* stop(): clear the flag, then block in join() if there is a worker_thread
Stop ==
    /\ running
    /\ ~joining
    /\ running' = FALSE
    /\ joining' = (wpc # "nothread")
    /\ UNCHANGED <<wpc, wtask, storage, raised>>
    /\ UNCHANGED qvars
    /\ UNCHANGED avars

\* join() returns once the loop has ended; worker_thread = None
StopJoin ==
    /\ joining
    /\ wpc = "exited"
    /\ joining' = FALSE
    /\ wpc' = "nothread"
    /\ UNCHANGED <<running, wtask, storage, raised>>
    /\ UNCHANGED qvars
    /\ UNCHANGED avars

\* while self.running: reached at thread start, after save_task returned,
\* after the except clause logged, and after dequeue returned None
WLoopCheck ==
    /\ wpc \in {"top", "except"}
    /\ wpc' = IF running THEN "deq" ELSE "exited"
    /\ UNCHANGED <<running, wtask, joining, storage, raised>>
    /\ UNCHANGED qvars
    /\ UNCHANGED avars

\* what the except clause of the loop does with the task being handled:
\* it only logs
OnProcessorError(ts, id) == ts

\* where control is once the processor has raised: the try/except sits inside
\* the while loop, so the thread is still in the loop
AfterRaiseMutCrash == "exited"
AfterRaise == "except"

\* success = self.task_processor(task); task.status = final_status.
\* The processor returns True, returns False or raises; a raise lands in the
\* except clause, which logs and lets the loop continue.
Process(outcome) ==
    /\ wpc = "process"
    /\ IF outcome = "raise"
       THEN /\ tasks' = OnProcessorError(tasks, wtask)
            /\ wpc' = AfterRaise
            /\ raised' = TRUE
       ELSE /\ tasks' = [tasks EXCEPT ![wtask].status =
                            IF outcome = "true" THEN COMPLETED ELSE FAILED]
            /\ wpc' = "save"
            /\ UNCHANGED raised
    /\ UNCHANGED <<heap, nextId, waiters, dpc, dto, dret, delivered, pushes>>
    /\ UNCHANGED <<running, wtask, joining, storage>>
    /\ UNCHANGED avars

\* FileStorage.save_task: the JSON dump of the task as it is at this moment
\* replaces the file of that id
save_task(st, id, status) == [st EXCEPT ![id] = status]

\* FileStorage.load_task
load_task(id) == storage[id]

\* self.storage.save_task(task), then back to the top of the loop
Save ==
    /\ wpc = "save"
    /\ storage' = save_task(storage, wtask, tasks[wtask].status)
    /\ wpc' = "top"
    /\ UNCHANGED <<running, wtask, joining, raised>>
    /\ UNCHANGED qvars
    /\ UNCHANGED avars

\* ---------------------------- TaskWorker.start called from several threads
\* start() takes no lock: the test of self.running and the assignment that
\* follows it are separate steps of the calling thread.
\* 'if not self.running' found the flag clear (a call that finds it set returns)
StartTest(c) ==
    /\ spc[c] = "idle"
    /\ ~running
    /\ spc' = [spc EXCEPT ![c] = "set"]
    /\ UNCHANGED extraLoops
    /\ UNCHANGED <<qvars, wvars, delResp, nvars, evars, lvars, svars, cvars, fvars>>

\* self.running = True; a new thread is created and started on _worker_loop.
\* wpc follows the first loop thread; the further ones run the same loop and
\* only their number is tracked.
StartThread(c) ==
    /\ spc[c] = "set"
    /\ spc' = [spc EXCEPT ![c] = "idle"]
    /\ running' = TRUE
    /\ IF wpc = "nothread"
       THEN wpc' = "top" /\ UNCHANGED extraLoops
       ELSE extraLoops < MaxExtraLoops /\ extraLoops' = extraLoops + 1 /\ UNCHANGED wpc
    /\ UNCHANGED <<wtask, joining, storage, raised>>
    /\ UNCHANGED <<qvars, delResp, nvars, evars, lvars, svars, cvars, fvars>>

\* one of the further loop threads reads self.running as False and ends
ExtraLoopExit ==
    /\ extraLoops > 0
    /\ ~running
    /\ extraLoops' = extraLoops - 1
    /\ UNCHANGED spc
    /\ UNCHANGED <<qvars, wvars, delResp, nvars, evars, lvars, svars, cvars, fvars>>

\* ------------------------------------------------- EventBus, event handlers
\* an Event, reduced to the fields the bus and the handlers read: the id
\* (given by publish), the type, the source, the correlation id and, from the
\* payload, task_id, retry_count, max_retries
Event(type, source, id, rc, mr, corr) ==
    [id |-> None, type |-> type, source |-> source, task_id |-> id,
     retry_count |-> rc, max_retries |-> mr, correlation_id |-> corr,
     task_type |-> "none"]

\* EventBus.subscribe: the handler is appended unless the list of that type
\* already holds it
subscribeMutNoDedup(subs, ty, h) == [subs EXCEPT ![ty] = Append(@, h)]
subscribe(subs, ty, h) ==
    IF \E k \in 1..Len(subs[ty]) : subs[ty][k] = h
    THEN subs
    ELSE [subs EXCEPT ![ty] = Append(@, h)]

\* deque.append on a deque with maxlen: a full deque drops its oldest item
deque_appendMutUnbounded(d, x) == Append(d, x)
deque_append(d, x) ==
    IF Len(d) >= max_history THEN Append(Tail(d), x) ELSE Append(d, x)

\* the threads _notify_subscribers starts for the events of a set: one per
\* entry of the copied handler list of the event's type, each holding its
\* handler and its event
Started(subs, events) ==
    [t \in UNION {{<<subs[e.type][k], e>> : k \in 1..Len(subs[e.type])} : e \in events}
        |-> Cardinality({k \in 1..Len(subs[t[2].type]) : subs[t[2].type][k] = t[1]})]

notify_subscribers(threads, subs, event) == threads (+) Started(subs, {event})

\* EventBus.publish: build the Event with a fresh id, append it to the
\* history, then _notify_subscribers; the id is returned.  The n-th publish
\* call of the run draws the id n.
publish(hist, threads, subs, n, ev) ==
    LET event == [ev EXCEPT !.id = n + 1]
    IN [id |-> event.id,
        history |-> deque_append(hist, event),
        threads |-> notify_subscribers(threads, subs, event)]

\* EventBus._run_handler: what the except clause does to the started
\* threads: it logs and nothing else
OnHandlerErrorMutAbort(threads, t) ==
    [u \in {v \in DOMAIN threads : v[2] # t[2]} |-> threads[u]]
OnHandlerError(threads, t) == threads

\* the started threads once thread t has ended
Ended(threads, t) == threads (-) SetToBag({t})

\* the test of _handle_task_retry
RetryEligibleMutInclusive(rc, mr) == rc <= mr
RetryEligible(rc, mr) == rc < mr

\* TaskEventHandlers._handle_task_retry(failed_task): the events it publishes
handle_task_retry(failed) ==
    IF RetryEligible(failed.retry_count, failed.max_retries)
    THEN <<Event(TASK_CREATED, "retry_handler", failed.task_id,
                 failed.retry_count + 1, failed.max_retries, failed.correlation_id)>>
    ELSE <<>>

\* some component publishes task_failed for a task, once per task id, using
\* the task id as correlation id
PublishFailed(id, rc, mr) ==
    /\ Len(event_history) < MaxEvents
    /\ \A k \in 1..Len(event_history) :
          ~(event_history[k].type = TASK_FAILED /\ event_history[k].task_id = id)
    /\ LET r == publish(event_history, handlerThreads, subscribers, published,
                        Event(TASK_FAILED, "worker", id, rc, mr, id))
       IN /\ event_history' = r.history
          /\ handlerThreads' = r.threads
          /\ published' = r.id
    /\ UNCHANGED <<subscribers, handlerErrors>>
    /\ UNCHANGED <<qvars, wvars, delResp, nvars, lvars, rvars, svars, cvars, fvars>>

\* a handler thread runs handle_task_failed on event e: log, then
\* _handle_task_retry
HandleTaskFailed(e) ==
    /\ BagIn(<<"handle_task_failed", e>>, handlerThreads)
    /\ LET out == handle_task_retry(e)
           rest == Ended(handlerThreads, <<"handle_task_failed", e>>)
       IN IF out = <<>>
          THEN /\ handlerThreads' = rest
               /\ UNCHANGED <<event_history, published>>
          ELSE /\ Len(event_history) < MaxEvents
               /\ LET r == publish(event_history, rest, subscribers, published, out[1])
                  IN /\ event_history' = r.history
                     /\ handlerThreads' = r.threads
                     /\ published' = r.id
    /\ UNCHANGED <<subscribers, handlerErrors>>
    /\ UNCHANGED <<qvars, wvars, delResp, nvars, lvars, rvars, svars, cvars, fvars>>

\* a handler thread runs handle_task_created on event e: it only logs
HandleTaskCreated(e) ==
    /\ BagIn(<<"handle_task_created", e>>, handlerThreads)
    /\ handlerThreads' = Ended(handlerThreads, <<"handle_task_created", e>>)
    /\ UNCHANGED <<event_history, published, subscribers, handlerErrors>>
    /\ UNCHANGED <<qvars, wvars, delResp, nvars, lvars, rvars, svars, cvars, fvars>>

\* the values of the payload's task_type
TaskTypes == {"data_processing", "report_generation", "none"}

\* TaskEventHandlers._trigger_dependent_tasks(completed_task): the events it
\* publishes
trigger_dependent_tasksMutChain(completed) ==
    <<[Event(TASK_COMPLETED, "dependency_handler", completed.task_id, 0, 0,
             completed.correlation_id) EXCEPT !.task_type = "data_processing"]>>
trigger_dependent_tasks(completed) ==
    IF completed.task_type = "data_processing"
    THEN <<[Event(TASK_CREATED, "dependency_handler", None, 0, 0,
                  completed.correlation_id) EXCEPT !.task_type = "report_generation"]>>
    ELSE <<>>

\* a handler thread runs handle_task_completed on event e: log, then
\* _trigger_dependent_tasks
HandleTaskCompleted(e) ==
    /\ BagIn(<<"handle_task_completed", e>>, handlerThreads)
    /\ LET out == trigger_dependent_tasks(e)
           rest == Ended(handlerThreads, <<"handle_task_completed", e>>)
       IN IF out = <<>>
          THEN /\ handlerThreads' = rest
               /\ UNCHANGED <<event_history, published>>
          ELSE /\ Len(event_history) < MaxEvents
               /\ LET r == publish(event_history, rest, subscribers, published, out[1])
                  IN /\ event_history' = r.history
                     /\ handlerThreads' = r.threads
                     /\ published' = r.id
    /\ UNCHANGED <<subscribers, handlerErrors>>
    /\ UNCHANGED <<qvars, wvars, delResp, nvars, lvars, rvars, svars, cvars, fvars>>

\* a handler thread runs handle_health_check on event e: it reads the
\* payload and logs, or raises on a payload that is not a dict of dicts,
\* which _run_handler catches and logs
HandleHealthCheck(e, ok) ==
    /\ BagIn(<<"handle_health_check", e>>, handlerThreads)
    /\ handlerThreads' = Ended(handlerThreads, <<"handle_health_check", e>>)
    /\ handlerErrors' = IF ok THEN handlerErrors
                        ELSE handlerErrors \cup {<<"handle_health_check", e.id>>}
    /\ UNCHANGED <<event_history, published, subscribers>>
    /\ UNCHANGED <<qvars, wvars, delResp, nvars, lvars, rvars, svars, cvars, fvars>>

\* a component outside the handlers publishes an event of any type
PublishExternal(ty, id, rc, mr, tt) ==
    /\ LET r == publish(event_history, handlerThreads, subscribers, published,
                        [Event(ty, "api", id, rc, mr, id) EXCEPT !.task_type = tt])
       IN /\ event_history' = r.history
          /\ handlerThreads' = r.threads
          /\ published' = r.id
    /\ UNCHANGED <<subscribers, handlerErrors>>
    /\ UNCHANGED <<qvars, wvars, delResp, nvars, lvars, rvars, svars, cvars, fvars>>

\* Event.timestamp: datetime.now() read by publish; the n-th publish call
\* reads the n-th instant
timestamp(e) == e.id

\* list.sort(key=lambda e: e.timestamp, reverse=rev): stable, equal keys keep
\* their order
RECURSIVE sort_insert(_, _, _)
sort_insert(e, s, rev) ==
    IF s = <<>> THEN <<e>>
    ELSE IF (IF rev THEN timestamp(e) > timestamp(Head(s))
                    ELSE timestamp(e) < timestamp(Head(s)))
         THEN <<e>> \o s
         ELSE <<Head(s)>> \o sort_insert(e, Tail(s), rev)
RECURSIVE sort(_, _)
sort(s, rev) ==
    IF s = <<>> THEN <<>>
    ELSE sort_insert(s[Len(s)], sort(SubSeq(s, 1, Len(s) - 1), rev), rev)

\* the events of the history with correlation id c, in history order
Correlated(hist, c) == SelectSeq(hist, LAMBDA e : e.correlation_id = c)

\* EventBus.get_events(correlation_id=c, limit=limit): the matching events,
\* newest first, cut to the limit
default_limit == 100
get_events(hist, c, limit) == Truncate(sort(Correlated(hist, c), TRUE), limit)

\* EventBus.replay_events(c): the events it hands to _notify_subscribers, in
\* the order of the calls
replay_events(hist, c) == sort(get_events(hist, c, default_limit), FALSE)

Elements(seq) == {seq[k] : k \in 1..Len(seq)}

\* EventBus.replay_events(c), called once the earlier handler threads of the
\* events have run
ReplayEvents(c) ==
    LET events == replay_events(event_history, c)
    IN /\ events # <<>>
       /\ \A t \in DOMAIN handlerThreads : t[2] \notin Elements(events)
       /\ handlerThreads' = handlerThreads (+) Started(subscribers, Elements(events))
       /\ replayed' = [k \in 1..Len(events) |-> events[k].id]
    /\ UNCHANGED <<event_history, published, subscribers, handlerErrors>>
    /\ UNCHANGED <<qvars, wvars, delResp, hvars, bvars, kvars, lvars, rvars, svars, cvars, fvars>>

\* a caller subscribes one of its handlers to a type
Subscribe(ty, h) ==
    /\ subscribers' = subscribe(subscribers, ty, h)
    /\ UNCHANGED <<event_history, handlerThreads, published, handlerErrors>>
    /\ UNCHANGED <<qvars, wvars, delResp, nvars, lvars, rvars, svars, cvars, fvars>>

\* a workflow publishes an event that carries its correlation id
PublishCorrelated(c) ==
    /\ LET r == publish(event_history, handlerThreads, subscribers, published,
                        Event(TASK_UPDATED, "api", None, 0, 0, c))
       IN /\ event_history' = r.history
          /\ handlerThreads' = r.threads
          /\ published' = r.id
    /\ UNCHANGED <<subscribers, handlerErrors>>
    /\ UNCHANGED <<qvars, wvars, delResp, nvars, lvars, rvars, svars, cvars, fvars>>

\* a caller publishes an event of a type, with an empty payload
PublishPlain(ty) ==
    /\ LET r == publish(event_history, handlerThreads, subscribers, published,
                        Event(ty, "api", None, 0, 0, None))
       IN /\ event_history' = r.history
          /\ handlerThreads' = r.threads
          /\ published' = r.id
    /\ UNCHANGED <<subscribers, handlerErrors>>
    /\ UNCHANGED <<qvars, wvars, delResp, nvars, lvars, rvars, svars, cvars, fvars>>

\* a handler thread runs a caller's handler, which returns or raises;
\* _run_handler catches and logs what it raises
RunHandler(t, ok) ==
    /\ BagIn(t, handlerThreads)
    /\ t[1] \in CallerHandlers
    /\ handlerThreads' = Ended(IF ok THEN handlerThreads
                               ELSE OnHandlerError(handlerThreads, t), t)
    /\ handlerErrors' = IF ok THEN handlerErrors
                        ELSE handlerErrors \cup {<<t[1], t[2].id>>}
    /\ UNCHANGED <<event_history, published, subscribers>>
    /\ UNCHANGED <<qvars, wvars, delResp, nvars, lvars, rvars, svars, cvars, fvars>>

\* ------------------------------------------------------------ LoadBalancer
\* the list comprehension of update_healthy_instances
HealthyList(st) == SelectSeq([i \in Instances |-> i], LAMBDA i : st[i] = HEALTHY)

NoServed == [i \in Instances |-> 0]

\* check_instance_health(instance) inside the pass of health_check_loop: the
\* answer of GET /health is 200, or it is not 200 or the request fails
CheckInstanceHealth(ok) ==
    /\ hpc \in Instances
    /\ LET st == IF ok THEN HEALTHY ELSE UNHEALTHY
       IN /\ istatus' = [istatus EXCEPT ![hpc] = st]
          /\ served' = IF istatus[hpc] = st THEN served ELSE NoServed
    /\ hpc' = hpc + 1
    /\ UNCHANGED <<healthy_instances, cyclePos, forwarded>>
    /\ UNCHANGED <<qvars, wvars, delResp, nvars, evars, rvars, svars, cvars, fvars>>

\* update_healthy_instances at the end of the pass: the list is rebuilt and a
\* new itertools.cycle is made over it; then the loop sleeps
UpdateHealthyInstances ==
    /\ hpc = NInstances + 1
    /\ healthy_instances' = HealthyList(istatus)
    /\ cyclePos' = 0
    /\ served' = IF healthy_instances' = healthy_instances THEN served ELSE NoServed
    /\ hpc' = 1
    /\ UNCHANGED <<istatus, forwarded>>
    /\ UNCHANGED <<qvars, wvars, delResp, nvars, evars, rvars, svars, cvars, fvars>>

ServedTotal == served[1] + served[2] + served[3]

\* forward_request: get_next_instance takes the next item of the cycle, or
\* there is no cycle and the answer is 503
ForwardRequest ==
    IF healthy_instances = <<>>
    THEN /\ forwarded' = [code |-> "503", instance |-> None]
         /\ UNCHANGED <<istatus, healthy_instances, cyclePos, hpc, served>>
         /\ UNCHANGED <<qvars, wvars, delResp, nvars, evars, rvars, svars, cvars, fvars>>
    ELSE LET instance == healthy_instances[cyclePos + 1]
         IN /\ ServedTotal < MaxRequests
            /\ cyclePos' = (cyclePos + 1) % Len(healthy_instances)
            /\ served' = [served EXCEPT ![instance] = @ + 1]
            /\ forwarded' = [code |-> "forwarded", instance |-> instance]
            /\ UNCHANGED <<istatus, healthy_instances, hpc>>
            /\ UNCHANGED <<qvars, wvars, delResp, nvars, evars, rvars, svars, cvars, fvars>>

\* ---------------------------------------- LoadBalancer: start, stop, stats
\* the served counts after the statuses, or the healthy list, went from st
\* to st2
ServedAfter(st, st2) == IF st = st2 THEN served ELSE NoServed

\* start(): a new ClientSession replaces the old one, request_stop is
\* cleared, a task running health_check_loop is created, and
\* update_healthy_instances runs; the task first runs when start has returned
LbStart ==
    /\ \E l \in LoopIds : loops[l] = <<"none">>
    /\ LET l == CHOOSE k \in LoopIds :
                    loops[k] = <<"none">> /\ \A j \in LoopIds : j < k => loops[j] # <<"none">>
       IN loops' = [loops EXCEPT ![l] = <<"top">>]
    /\ session' = "open"
    /\ request_stop' = FALSE
    /\ healthy_instances' = HealthyList(istatus)
    /\ cyclePos' = 0
    /\ served' = ServedAfter(healthy_instances, healthy_instances')
    /\ UNCHANGED <<istatus, hpc, forwarded, stats>>
    /\ UNCHANGED <<qvars, wvars, delResp, hvars, pvars, kvars, evars, rvars, svars, cvars, fvars>>

\* stop(): request_stop is set and the session, if there is one, is closed
LbStop ==
    /\ request_stop' = TRUE
    /\ session' = IF session = "none" THEN "none" ELSE "closed"
    /\ UNCHANGED <<loops, stats>>
    /\ UNCHANGED <<qvars, wvars, delResp, hvars, pvars, kvars, evars, lvars, rvars, svars, cvars, fvars>>

\* the test of the while loop of health_check_loop
loop_continuesMutAlways(stop) == TRUE
loop_continues(stop) == ~stop

\* health_check_loop at the top of its while loop: it ends, or it begins a
\* pass with the request to the first instance
LoopTop(l) ==
    /\ loops[l] = <<"top">>
    /\ loops' = [loops EXCEPT ![l] = IF loop_continues(request_stop)
                                     THEN <<"check", 1>> ELSE <<"done">>]
    /\ UNCHANGED <<request_stop, session, stats>>
    /\ UNCHANGED <<qvars, wvars, delResp, hvars, pvars, kvars, evars, lvars, rvars, svars, cvars, fvars>>

\* check_instance_health of a pass ends: the answer is 200, or it is not 200
\* or the request fails, as every request on a closed session does
LoopCheck(l, ok) ==
    /\ Len(loops[l]) = 2
    /\ LET i == loops[l][2]
           st == IF ok /\ session = "open" THEN HEALTHY ELSE UNHEALTHY
       IN /\ istatus' = [istatus EXCEPT ![i] = st]
          /\ served' = ServedAfter(istatus[i], st)
          /\ loops' = [loops EXCEPT ![l] = IF i < NInstances THEN <<"check", i + 1>>
                                           ELSE <<"update">>]
    /\ UNCHANGED <<healthy_instances, cyclePos, hpc, forwarded>>
    /\ UNCHANGED <<request_stop, session, stats>>
    /\ UNCHANGED <<qvars, wvars, delResp, hvars, pvars, kvars, evars, rvars, svars, cvars, fvars>>

\* the end of a pass: update_healthy_instances, then the loop sleeps
LoopUpdate(l) ==
    /\ loops[l] = <<"update">>
    /\ loops' = [loops EXCEPT ![l] = <<"sleep">>]
    /\ healthy_instances' = HealthyList(istatus)
    /\ cyclePos' = 0
    /\ served' = ServedAfter(healthy_instances, healthy_instances')
    /\ UNCHANGED <<istatus, hpc, forwarded>>
    /\ UNCHANGED <<request_stop, session, stats>>
    /\ UNCHANGED <<qvars, wvars, delResp, hvars, pvars, kvars, evars, rvars, svars, cvars, fvars>>

\* asyncio.sleep(health_check_interval) ends
LoopWake(l) ==
    /\ loops[l] = <<"sleep">>
    /\ loops' = [loops EXCEPT ![l] = <<"top">>]
    /\ UNCHANGED <<request_stop, session, stats>>
    /\ UNCHANGED <<qvars, wvars, delResp, hvars, pvars, kvars, evars, lvars, rvars, svars, cvars, fvars>>

\* a created health_check_loop task that has not ended
Active(l) == loops[l] \notin {<<"none">>, <<"done">>}

\* the statistics after the response was read, and after the except clause
on_relayed(st) ==
    [st EXCEPT !.total_requests = @ + 1, !.successful_requests = @ + 1]
on_transport_errorMutUncounted(st) == [st EXCEPT !.failed_requests = @ + 1]
on_transport_error(st) ==
    [st EXCEPT !.total_requests = @ + 1, !.failed_requests = @ + 1]

\* forward_request with its statistics: no instance and 503; or an instance
\* is selected and the backend's response is relayed, or the request raises
\* (as every request on a closed session does) and the answer is 502; with
\* no session at all the function falls through and returns None
LbForward(relayed) ==
    IF healthy_instances = <<>>
    THEN /\ forwarded' = [code |-> "503", instance |-> None]
         /\ UNCHANGED <<istatus, healthy_instances, cyclePos, hpc, served>>
         /\ UNCHANGED bvars
         /\ UNCHANGED <<qvars, wvars, delResp, hvars, pvars, kvars, evars, rvars, svars, cvars, fvars>>
    ELSE LET instance == healthy_instances[cyclePos + 1]
             code == IF session = "none" THEN "none"
                     ELSE IF relayed /\ session = "open" THEN "relayed" ELSE "502"
         IN /\ cyclePos' = (cyclePos + 1) % Len(healthy_instances)
            /\ forwarded' = [code |-> code, instance |-> instance]
            /\ stats' = CASE code = "relayed" -> on_relayed(stats)
                          [] code = "502" -> on_transport_error(stats)
                          [] OTHER -> stats
            /\ UNCHANGED <<istatus, healthy_instances, hpc, served>>
            /\ UNCHANGED <<request_stop, session, loops>>
            /\ UNCHANGED <<qvars, wvars, delResp, hvars, pvars, kvars, evars, rvars, svars, cvars, fvars>>

\* ------------------------------------------------------------ SQSTaskQueue
\* the fields Task declares; pydantic refuses to set any other attribute
TaskFields == {"id", "name", "priority", "payload", "status", "created_at", "updated_at"}
SetAttr(field) == IF field \in TaskFields THEN "ok" ELSE "ValueError"

\* the id of the Task that enqueue builds (a fresh uuid4)
FreshSqsId == CHOOSE i \in SqsIds : remote[i] = "none" /\ \A j \in SqsIds : j < i => remote[j] # "none"

\* what the except clauses of enqueue do to _tasks before they re-raise
MirrorOnSendErrorMutIndexed(m, id) == [m EXCEPT ![id] = PENDING]
MirrorOnSendError(m, id) == m

\* enqueue up to the answer of sqs.send_message: either the message is in the
\* remote queue, or the call raised and enqueue re-raises to its caller
SqsSend(ok) ==
    /\ epc = None
    /\ \E i \in SqsIds : remote[i] = "none"
    /\ LET id == FreshSqsId
       IN IF ok
          THEN /\ remote' = [remote EXCEPT ![id] = "visible"]
               /\ epc' = id
               /\ UNCHANGED <<mirror, sqsResp>>
          ELSE /\ mirror' = MirrorOnSendError(mirror, id)
               /\ sqsResp' = "raised"
               /\ UNCHANGED <<remote, epc>>
    /\ UNCHANGED <<qvars, wvars, delResp, nvars, evars, lvars, rvars, cvars, fvars>>

\* the rest of enqueue: self._tasks[task.id] = task under the lock, return
SqsIndex ==
    /\ epc # None
    /\ mirror' = [mirror EXCEPT ![epc] = PENDING]
    /\ epc' = None
    /\ sqsResp' = "ok"
    /\ UNCHANGED remote
    /\ UNCHANGED <<qvars, wvars, delResp, nvars, evars, lvars, rvars, cvars, fvars>>

\* the value dequeue returns once receive_message delivered message m with
\* a body that parses: task.status and task.updated_at are set, then
\* 'task.receipt_handle = ...' is refused by the Task model, the ValueError
\* is caught by 'except Exception' and None is returned
SqsDequeued(m) == IF SetAttr("receipt_handle") = "ok" THEN m ELSE None

\* the worker calls SQSTaskQueue.dequeue: the service errors, delivers nothing,
\* or delivers a visible message, which becomes invisible for the visibility
\* timeout; its body parses or does not
SqsDequeue(outcome, m) ==
    /\ wpc = "deq"
    /\ IF outcome \in {"error", "empty"}
       THEN /\ Return(Worker, None)
            /\ UNCHANGED <<remote, mirror>>
       ELSE /\ remote[m] = "visible"
            /\ remote' = [remote EXCEPT ![m] = "inflight"]
            /\ LET task == IF outcome = "message" THEN SqsDequeued(m) ELSE None
               IN /\ Return(Worker, task)
                  /\ mirror' = IF task = None THEN mirror
                               ELSE [mirror EXCEPT ![m] = PROCESSING]
    /\ UNCHANGED <<epc, sqsResp>>
    /\ UNCHANGED <<tasks, heap, nextId, waiters, dpc, delivered, pushes>>
    /\ UNCHANGED <<running, joining, storage, raised>>
    /\ UNCHANGED <<delResp, nvars, evars, lvars, rvars, cvars, fvars>>

\* the value SQSTaskQueue.update_task_status(id, s) returns: False only for
\* an id that _tasks does not hold
SqsUpdateReturns(id, s) == mirror[id] # "none"

\* SQSTaskQueue.update_task_status: the status of a known id is overwritten
SqsUpdateTaskStatus(id, s) ==
    /\ mirror' = IF SqsUpdateReturns(id, s) THEN [mirror EXCEPT ![id] = s] ELSE mirror
    /\ UNCHANGED <<remote, epc, sqsResp>>
    /\ UNCHANGED <<qvars, wvars, delResp, nvars, evars, lvars, rvars, cvars, fvars>>

\* the visibility timeout of a received and never deleted message runs out
VisibilityExpire(m) ==
    /\ remote[m] = "inflight"
    /\ remote' = [remote EXCEPT ![m] = "visible"]
    /\ UNCHANGED <<mirror, epc, sqsResp>>
    /\ UNCHANGED <<qvars, wvars, delResp, nvars, evars, lvars, rvars, cvars, fvars>>

\* ------------------------------------------------- FileStorage, S3Storage
\* Task ids are strings of the characters a uuid4 or a test id is made of;
\* one is shorter than the two-character directory prefix, one is longer
StorageIds == {<<"a">>, <<"4", "f", "-", "9">>}
Names == {"n1", "n2"}
StorageTasks == [id : StorageIds, name : Names, status : TaskStatus]
Ext == <<".", "j", "s", "o", "n">>

\* task.model_dump(mode='json') written by json.dump: a JSON object whose
\* values are JSON strings; the status is written as the value of the enum
json_dump(t) ==
    [id |-> <<"string", t.id>>, name |-> <<"string", t.name>>,
     status |-> <<"string", t.status>>]

\* json.load, then Task.model_validate / Task(**data): the Task, or nothing
\* when a field is not a string or the status is not a value of TaskStatus
model_validate(doc) ==
    IF /\ doc.id[1] = "string" /\ doc.name[1] = "string" /\ doc.status[1] = "string"
       /\ doc.status[2] \in TaskStatus
    THEN <<[id |-> doc.id[2], name |-> doc.name[2], status |-> doc.status[2]]>>
    ELSE <<>>

\* task_id[:min(2, len(task_id))]
Prefix(id) == SubSeq(id, 1, IF Len(id) < 2 THEN Len(id) ELSE 2)

\* FileStorage._get_task_file_path: tasks_dir / prefix / "<id>.json"
get_task_file_path(id) == <<Prefix(id), id \o Ext>>

\* S3Storage._get_task_s3_key: "tasks/<prefix>/<id>.json"
get_task_s3_key(id) ==
    <<"t", "a", "s", "k", "s", "/">> \o Prefix(id) \o <<"/">> \o id \o Ext

\* str.endswith
EndsWith(s, suffix) ==
    Len(s) >= Len(suffix) /\ SubSeq(s, Len(s) - Len(suffix) + 1, Len(s)) = suffix

\* key.split('/')[-1]
LastSegment(s) ==
    LET slashes == {k \in 1..Len(s) : s[k] = "/"}
    IN IF slashes = {} THEN s
       ELSE SubSeq(s, (CHOOSE k \in slashes : \A j \in slashes : j <= k) + 1, Len(s))

\* str.replace(old, ''): every occurrence of old, from the left
RECURSIVE replace_empty(_, _)
replace_empty(s, old) ==
    IF Len(s) < Len(old) THEN s
    ELSE IF SubSeq(s, 1, Len(old)) = old
         THEN replace_empty(SubSeq(s, Len(old) + 1, Len(s)), old)
         ELSE <<s[1]>> \o replace_empty(Tail(s), old)

\* file[:-5]
StripExtMutShort(file) == SubSeq(file, 1, Len(file) - 4)
StripExt(file) == SubSeq(file, 1, Len(file) - 5)

\* a mapping with key k bound to v, and with key k removed
Put(f, k, v) == [x \in DOMAIN f \cup {k} |-> IF x = k THEN v ELSE f[x]]
Drop(f, k) == [x \in DOMAIN f \ {k} |-> f[x]]

\* FileStorage.load_task and S3Storage.load_task on the stored files and
\* objects: <<>> stands for None, <<t>> for the Task t
file_load_task(fs, id) ==
    IF get_task_file_path(id) \in DOMAIN fs
    THEN model_validate(fs[get_task_file_path(id)])
    ELSE <<>>
s3_load_task(b, id) ==
    IF get_task_s3_key(id) \in DOMAIN b
    THEN model_validate(b[get_task_s3_key(id)])
    ELSE <<>>

\* FileStorage.list_all_tasks and S3Storage.list_all_tasks
file_list_all_tasks(fs) ==
    {StripExt(path[2]) : path \in {q \in DOMAIN fs : EndsWith(q[2], Ext)}}
s3_list_all_tasks(b) ==
    {replace_empty(LastSegment(key), Ext) : key \in {q \in DOMAIN b : EndsWith(q, Ext)}}

\* storage_factory.create_storage gives the process one backend: the first
\* storage call of a run shows which, and every later call goes to the same
Uses(backend) == lastOp[1] \in {"none", backend}

\* the kind of a save_task call: "resave" when the stored content already is
\* the dump of that very task, else "save"
SaveKind(stored, key, t) ==
    IF key \in DOMAIN stored /\ stored[key] = json_dump(t) THEN "resave" ELSE "save"

\* FileStorage.save_task: the dump is written to a temporary file which then
\* replaces the task's file; on an error the file is left alone and False
\* is returned
FileSave(t, ok) ==
    /\ Uses("file")
    /\ IF ok
       THEN /\ files' = Put(files, get_task_file_path(t.id), json_dump(t))
            /\ lastOp' = <<"file", SaveKind(files, get_task_file_path(t.id), t), t.id>>
       ELSE UNCHANGED <<files, lastOp>>
    /\ UNCHANGED bucket
    /\ UNCHANGED <<qvars, wvars, delResp, nvars, evars, lvars, rvars, svars, cvars>>

\* FileStorage.delete_task: unlink(missing_ok=True)
FileDelete(id) ==
    /\ Uses("file")
    /\ files' = Drop(files, get_task_file_path(id))
    /\ lastOp' = <<"file", "delete", id>>
    /\ UNCHANGED bucket
    /\ UNCHANGED <<qvars, wvars, delResp, nvars, evars, lvars, rvars, svars, cvars>>

\* S3Storage.save_task: one put_object under the task's key; a client error
\* leaves the bucket alone and is raised to the caller
S3Save(t, ok) ==
    /\ Uses("s3")
    /\ IF ok
       THEN /\ bucket' = Put(bucket, get_task_s3_key(t.id), json_dump(t))
            /\ lastOp' = <<"s3", SaveKind(bucket, get_task_s3_key(t.id), t), t.id>>
       ELSE UNCHANGED <<bucket, lastOp>>
    /\ UNCHANGED files
    /\ UNCHANGED <<qvars, wvars, delResp, nvars, evars, lvars, rvars, svars, cvars>>

\* S3Storage.delete_task: head_object, then delete_object; for a missing key
\* head_object raises and nothing is deleted
S3Delete(id) ==
    /\ Uses("s3")
    /\ bucket' = IF get_task_s3_key(id) \in DOMAIN bucket
                 THEN Drop(bucket, get_task_s3_key(id))
                 ELSE bucket
    /\ lastOp' = <<"s3", "delete", id>>
    /\ UNCHANGED files
    /\ UNCHANGED <<qvars, wvars, delResp, nvars, evars, lvars, rvars, svars, cvars>>

\* ------------------------------------- TaskCache, CachedTaskOperations
\* f"task_metadata:{task_id}"
cache_key(id) == <<"task_metadata", id>>

\* TaskCache(): a new object, whose cache dict is empty
NewTaskCache == <<>>

\* CacheEntry.is_expired at time t
is_expired(entry, t) == t > entry.creation_time + entry.ttl_seconds

\* TaskCache.get on the cache dict c at time t: <<>> stands for None,
\* <<data>> for the data of an entry that is there and not expired
cache_get(c, key, t) ==
    IF key \in DOMAIN c /\ ~is_expired(c[key], t) THEN <<c[key].data>> ELSE <<>>

\* TaskCache.set on the cache dict c at time t
cache_set(c, key, value, ttl, t) ==
    Put(c, key, [data |-> value, creation_time |-> t, ttl_seconds |-> ttl])

\* CachedTaskOperations.get_task_metadata(id): TaskCache().get on a new
\* TaskCache; on a miss the row is loaded from the database and, when there
\* is one, TaskCache().set stores it in another new TaskCache
GetTaskMetadata(id) ==
    LET task == cache_get(NewTaskCache, cache_key(id), now)
    IN IF task # <<>>
       THEN /\ lastGet' = <<id, task[1], "cache">>
            /\ caches' = Append(caches, NewTaskCache)
            /\ UNCHANGED <<dbReads, loaded>>
       ELSE /\ dbReads' = [dbReads EXCEPT ![id] = @ + 1]
            /\ lastGet' = <<id, db[id], "database">>
            /\ IF db[id] # "none"
               THEN /\ caches' = caches \o <<NewTaskCache,
                                      cache_set(NewTaskCache, cache_key(id), db[id],
                                                TTL_SECONDS, now)>>
                    /\ loaded' = [loaded EXCEPT ![id] = <<db[id], now>>]
               ELSE /\ caches' = Append(caches, NewTaskCache)
                    /\ UNCHANGED loaded
    /\ UNCHANGED <<now, db>>
    /\ UNCHANGED <<qvars, wvars, delResp, hvars, pvars, bvars, evars, lvars, rvars, svars,
                   cvars, fvars>>

\* a row of the tasks table is written by some component
DbWrite(id, row) ==
    /\ db[id] = "none"
    /\ db' = [db EXCEPT ![id] = row]
    /\ UNCHANGED <<now, caches, dbReads, loaded, lastGet>>
    /\ UNCHANGED <<qvars, wvars, delResp, hvars, pvars, bvars, evars, lvars, rvars, svars,
                   cvars, fvars>>

\* time passes
Tick ==
    /\ now + ClockStep <= MaxClock
    /\ now' = now + ClockStep
    /\ UNCHANGED <<db, caches, dbReads, loaded, lastGet>>
    /\ UNCHANGED <<qvars, wvars, delResp, hvars, pvars, bvars, evars, lvars, rvars, svars,
                   cvars, fvars>>

\* --------------------------------------------------------- specifications
\* the queue alone: enqueuers and two threads calling dequeue
QEnqueue == \E p \in Prios : nextId <= MaxTasksQ /\ Enqueue(p)
QDeqCall == \E t \in Clients, to \in Timeouts : DeqCall(t, to)
QDeqWake == \E t \in Clients : DeqWake(t)
QDeqTimeout == \E t \in Clients : DeqTimeout(t)
QDeqTimeoutRet == \E t \in Clients : DeqTimeoutRet(t)

NextQ == QEnqueue \/ QDeqCall \/ QDeqWake \/ QDeqTimeout \/ QDeqTimeoutRet
SpecQ == Init /\ [][NextQ]_vars

\* the API process: request handlers, and the worker as the only dequeuer
ApiEnqueue == \E p \in Prios : nextId <= MaxTasks /\ pushes < MaxPushes /\ Enqueue(p)
ApiUpdate == \E id \in 1..MaxTasks, s \in TaskStatus : UpdateTaskStatus(id, s)
WDeqCall == DeqCall(Worker, DEQUEUE_TIMEOUT)
WDeqWake == DeqWake(Worker)
WDeqTimeout == DeqTimeout(Worker)
WDeqTimeoutRet == DeqTimeoutRet(Worker)
WProcess == \E outcome \in {"true", "false", "raise"} : Process(outcome)

WorkerStep == WLoopCheck \/ WDeqCall \/ WDeqWake \/ WDeqTimeout \/ WDeqTimeoutRet
                \/ WProcess \/ Save

Next == ApiEnqueue \/ ApiUpdate \/ Start \/ Stop \/ StopJoin \/ WorkerStep
Spec == Init /\ [][Next]_vars

\* the request handlers before any worker is started
ApiDelete == \E id \in 1..MaxTasks : ApiDeleteTask(id)
NextApi == ApiEnqueue \/ ApiUpdate \/ ApiDelete
SpecApi == Init /\ [][NextApi]_vars

\* enqueuers and the worker with its lifecycle.  The worker thread is
\* scheduled, its timed wait expires and the processor terminates.
NextW == ApiEnqueue \/ Start \/ Stop \/ StopJoin \/ WorkerStep
SpecW == Init /\ [][NextW]_vars
FairSpecW == SpecW /\ WF_vars(WorkerStep)

\* the event bus with the task handlers subscribed
BusPublishFailed == \E id \in PayloadIds, rc \in RetryCounts, mr \in RetryCounts :
                        PublishFailed(id, rc, mr)
BusHandleTaskFailed == \E k \in 1..Len(event_history) : HandleTaskFailed(event_history[k])
BusHandleTaskCreated == \E k \in 1..Len(event_history) : HandleTaskCreated(event_history[k])
BusReplayEvents == \E c \in PayloadIds : ReplayEvents(c)
NextBus == BusPublishFailed \/ BusHandleTaskFailed \/ BusHandleTaskCreated
              \/ BusReplayEvents
SpecBus == Init /\ [][NextBus]_vars

\* the load balancer: the health check loop and the forwarded requests
LbCheck == \E ok \in BOOLEAN : CheckInstanceHealth(ok)
NextLb == LbCheck \/ UpdateHealthyInstances \/ ForwardRequest
SpecLb == Init /\ [][NextLb]_vars

\* the worker with start() called from two threads and stop() from a third
RaceStartTest == \E c \in Starters : StartTest(c)
RaceStartThread == \E c \in Starters : StartThread(c)
NextStart == ApiEnqueue \/ RaceStartTest \/ RaceStartThread \/ ExtraLoopExit
                \/ Stop \/ StopJoin \/ WorkerStep
SpecStart == Init /\ [][NextStart]_vars

\* the remote backend: enqueuers, the service, and the worker started on an
\* SQSTaskQueue (its dequeue never hands the loop a task, so the loop never
\* gets to the processor)
SqsEnqueueSend == \E ok \in BOOLEAN : SqsSend(ok)
SqsWorkerDequeue == \E outcome \in {"error", "empty", "badbody", "message"}, m \in SqsIds :
                        SqsDequeue(outcome, m)
SqsVisibilityExpire == \E m \in SqsIds : VisibilityExpire(m)
SqsWorkerStep == WLoopCheck \/ SqsWorkerDequeue
NextSqs == SqsEnqueueSend \/ SqsIndex \/ SqsVisibilityExpire \/ Start \/ Stop
              \/ StopJoin \/ SqsWorkerStep
SpecSqs == Init /\ [][NextSqs]_vars
FairSpecSqs == SpecSqs /\ WF_vars(SqsWorkerStep)

\* the dequeuing threads keep calling dequeue
ClientStep == QDeqCall \/ QDeqWake \/ QDeqTimeout \/ QDeqTimeoutRet
FairSpecQ == SpecQ /\ WF_vars(ClientStep)

\* the event history: events of a type nobody subscribed to are published
HistoryPublish == published < MaxPublished /\ PublishPlain(TASK_UPDATED)
NextHistory == HistoryPublish
SpecHistory == Init /\ [][NextHistory]_vars

\* the bus with callers that subscribe their handlers and publish events of
\* the types the module's own handlers are not subscribed to
DispatchTypes == {TASK_STARTED, TASK_UPDATED}
DispSubscribe == \E ty \in DispatchTypes, h \in CallerHandlers : Subscribe(ty, h)
DispPublish == \E ty \in DispatchTypes : published < MaxDispatch /\ PublishPlain(ty)
DispRun == \E t \in DOMAIN handlerThreads, ok \in BOOLEAN : RunHandler(t, ok)
NextDispatch == DispSubscribe \/ DispPublish \/ DispRun
SpecDispatch == Init /\ [][NextDispatch]_vars

\* the remote queue with the status updates of the API
SqsApiUpdate == \E id \in SqsIds, s \in TaskStatus : SqsUpdateTaskStatus(id, s)
NextSqsApi == NextSqs \/ SqsApiUpdate
SpecSqsApi == Init /\ [][NextSqsApi]_vars

\* callers of the queue backend that pass any name and priority, and one
\* client that dequeues without waiting
NameLens == {0, 1, 100, 101}
RawPrios == {0, 1, 5, 6}
RawEnqueue == \E n \in NameLens, p \in RawPrios : nextId <= MaxTasksQ /\ EnqueueCall(n, p)
RawDequeue == DeqCall("d1", "zero")
NextRaw == RawEnqueue \/ RawDequeue
SpecRaw == Init /\ [][NextRaw]_vars

\* POST /tasks in two steps, next to the running worker
ApiCreateEnqueue == \E p \in Prios : nextId <= MaxTasks /\ pushes < MaxPushes /\ CreateEnqueue(p)
NextCreate == ApiCreateEnqueue \/ CreateRead \/ Start \/ WorkerStep
SpecCreate == Init /\ [][NextCreate]_vars

\* the two storage backends and their callers
StoreFileSave == \E t \in StorageTasks, ok \in BOOLEAN : FileSave(t, ok)
StoreFileDelete == \E id \in StorageIds : FileDelete(id)
StoreS3Save == \E t \in StorageTasks, ok \in BOOLEAN : S3Save(t, ok)
StoreS3Delete == \E id \in StorageIds : S3Delete(id)
NextStorage == StoreFileSave \/ StoreFileDelete \/ StoreS3Save \/ StoreS3Delete
SpecStorage == Init /\ [][NextStorage]_vars

\* the queue with threads that are scheduled: a thread inside dequeue that can
\* run does run (a notified waiter re-takes the lock, a timed-out waiter
\* returns); nobody is obliged to call dequeue or enqueue again
CallStep == QDeqWake \/ QDeqTimeoutRet
FairSpecCall == SpecQ /\ WF_vars(CallStep)


\* the queue with a retry path: enqueuers, two dequeuing threads that end
\* their task as completed or failed, and re-queues of failed tasks
RqEnqueue == \E p \in Prios :
                 nextId <= MaxTasksQ /\ pushes < MaxRequeuePushes /\ Enqueue(p)
RqDeqCall == \E t \in Clients, to \in {"none", "zero"} : DeqCall(t, to)
RqDeqWake == \E t \in Clients : DeqWake(t)
RqEnd == \E id \in DOMAIN tasks, s \in {COMPLETED, FAILED} :
             tasks[id].status = PROCESSING /\ UpdateTaskStatus(id, s)
RqRequeue == \E id \in Ids : Requeue(id)
NextRequeue == RqEnqueue \/ RqDeqCall \/ RqDeqWake \/ RqEnd \/ RqRequeue
SpecRequeue == Init /\ [][NextRequeue]_vars


\* the queue under calls from many threads: enqueuers, two dequeuing threads
\* that write the terminal status of the task they got, and callers of
\* update_task_status
CEnqueue == \E p \in Prios :
                nextId <= MaxTasks /\ pushes < MaxRequeuePushes /\ Enqueue(p)
CDeqCall == \E t \in Clients, to \in {"none", "zero"} : DeqCall(t, to)
CDeqWake == \E t \in Clients : DeqWake(t)
CFinish == \E id \in Ids, s \in {COMPLETED, FAILED} : Finish(id, s)
CUpdate == \E id \in 1..MaxTasks, s \in TaskStatus : Update(id, s)
NextCalls == CEnqueue \/ CDeqCall \/ CDeqWake \/ CFinish \/ CUpdate
SpecCalls == Init /\ [][NextCalls]_vars


\* replay of a long workflow: a caller may subscribe its handler, then two
\* workflows publish events under their correlation ids (the second one only
\* among the first MaxDispatch events), each handler thread runs before the
\* next event is published, and in the end replay_events is called for one
\* of the workflows
FirstThread(t) == \A u \in DOMAIN handlerThreads : timestamp(t[2]) <= timestamp(u[2])
RpSubscribe == published = 0 /\ Subscribe(TASK_UPDATED, "h1")
RpPublish == \E c \in PayloadIds :
                 /\ published < MaxReplayPublished
                 /\ published >= MaxDispatch => c = 1
                 /\ replayed = <<>>
                 /\ handlerThreads = EmptyBag
                 /\ PublishCorrelated(c)
RpReplay == \E c \in PayloadIds :
                replayed = <<>> /\ handlerThreads = EmptyBag /\ ReplayEvents(c)
RpRun == \E t \in DOMAIN handlerThreads : FirstThread(t) /\ RunHandler(t, TRUE)
NextReplay == RpSubscribe \/ RpPublish \/ RpReplay \/ RpRun
SpecReplay == Init /\ [][NextReplay]_vars


\* one event of any type is published from outside, with the task and
\* system handlers subscribed; the handler threads that are started run
CsPublish == \E ty \in EventType, id \in PayloadIds, rc \in RetryCounts,
                mr \in RetryCounts, tt \in TaskTypes :
                 published = 0 /\ PublishExternal(ty, id, rc, mr, tt)
CsFailed == \E k \in 1..Len(event_history) : HandleTaskFailed(event_history[k])
CsCreated == \E k \in 1..Len(event_history) : HandleTaskCreated(event_history[k])
CsCompleted == \E k \in 1..Len(event_history) : HandleTaskCompleted(event_history[k])
CsHealth == \E k \in 1..Len(event_history), ok \in BOOLEAN :
                HandleHealthCheck(event_history[k], ok)
HandlerStep == CsFailed \/ CsCreated \/ CsCompleted \/ CsHealth
NextCascade == CsPublish \/ HandlerStep
SpecCascade == Init /\ [][NextCascade]_vars
FairSpecCascade == SpecCascade /\ WF_vars(HandlerStep)


\* the load balancer's life: start and stop calls and the health_check_loop
\* tasks; the answers to the health requests arrive and the sleeps end
LfCheck == \E l \in LoopIds, ok \in BOOLEAN : LoopCheck(l, ok)
LoopStep == \E l \in LoopIds : LoopTop(l) \/ LoopUpdate(l) \/ LoopWake(l)
NextLife == LbStart \/ LbStop \/ LfCheck \/ LoopStep
SpecLife == Init /\ [][NextLife]_vars
FairSpecLife == SpecLife /\ WF_vars(LfCheck \/ LoopStep)

\* the load balancer, started once, with the requests it forwards
StStart == (\A l \in LoopIds : loops[l] = <<"none">>) /\ LbStart
StForward == \E relayed \in BOOLEAN :
                 stats.total_requests < MaxRequests /\ LbForward(relayed)
NextStats == StStart \/ LbStop \/ LfCheck \/ LoopStep \/ StForward
SpecStats == Init /\ [][NextStats]_vars


\* the cached task operations: rows appear in the database, metadata is
\* read, time passes
ChWrite == \E id \in CacheIds, row \in Rows : DbWrite(id, row)
ChGet == \E id \in CacheIds :
             dbReads["t1"] + dbReads["t2"] < MaxGets /\ GetTaskMetadata(id)
NextCache == ChWrite \/ ChGet \/ Tick
SpecCache == Init /\ [][NextCache]_vars


\* ------------------------------------------------------------------ claims
Known == DOMAIN tasks
Pending(j) == j \in Known /\ tasks[j].status = PENDING
Returned(i) == delivered'[i] > delivered[i]

\* C1: every dequeue that returns a task returns a pending task whose priority
\* number is the minimum over all tasks pending at that moment
C1_MinPriority ==
    [][\A i \in Known : Returned(i) =>
          /\ Pending(i)
          /\ \A j \in Known : Pending(j) => tasks[i].priority <= tasks[j].priority]_vars

\* a task was returned ahead of an earlier-enqueued, still pending task of
\* larger priority number
C1_Witness ==
    \E i, j \in Known : /\ i > j
                         /\ delivered[i] = 1
                         /\ Pending(j)
                         /\ tasks[i].priority < tasks[j].priority

\* C2: among pending tasks of equal priority dequeue returns the one inserted
\* first (ids are handed out in insertion order)
C2_FifoTiebreak ==
    [][\A i \in Known : Returned(i) =>
          \A j \in Known : (Pending(j) /\ tasks[j].priority = tasks[i].priority) => i <= j]_vars

\* C3: with concurrent dequeuers every enqueued task is either still queued
\* exactly once or was returned by exactly one dequeue call, two dequeuers never
\* hold the same task, and while dequeuers keep calling every queued task is
\* eventually returned (a queued task leaves the heap only by being returned,
\* so no task stays in the heap forever)
C3_Safe ==
    /\ \A i \in Known : /\ delivered[i] <= 1
                         /\ HeapCount(i) + delivered[i] = 1
    /\ \A t, u \in Clients : (t # u /\ dret[t] # None) => dret[t] # dret[u]
C3_DequeueAtomicity ==
    /\ []C3_Safe
    /\ \A i \in Ids : []<>(~InHeap(i))

\* both dequeuers hold a task, and they are different tasks
C3_Witness ==
    /\ dret["d1"] # None
    /\ dret["d2"] # None
    /\ delivered[dret["d1"]] = 1
    /\ delivered[dret["d2"]] = 1

\* C4: every task in the heap has status pending
C4_HeapOnlyPending ==
    \A k \in 1..Len(heap) : tasks[heap[k]].status = PENDING

\* C5: every status step is an edge of the transition DAG, and
\* update_task_status returns false and changes nothing when the id is unknown
\* or the requested transition is not an edge
Edges == {<<PENDING, PROCESSING>>, <<PROCESSING, COMPLETED>>,
          <<PROCESSING, FAILED>>, <<FAILED, PENDING>>}
C5_StatusDag ==
    [][/\ \A id \in Known :
            tasks'[id].status # tasks[id].status
                => <<tasks[id].status, tasks'[id].status>> \in Edges
       /\ \A id \in Ids, s \in TaskStatus :
            (UpdateTaskStatus(id, s)
                /\ (id \notin Known \/ <<tasks[id].status, s>> \notin Edges))
                => (~UpdateReturns(id, s) /\ tasks' = tasks /\ heap' = heap)]_vars

\* C6: get_task of every id an enqueue returned is not None (there is no
\* successful delete_task in this specification)
C6_NoLoss ==
    \A id \in 1..(nextId - 1) : get_task(id) # None

\* a task that was dequeued, brought to a terminal status by the worker,
\* persisted and re-queued is still in the index
C6_Witness ==
    \E id \in Known : /\ delivered[id] >= 1
                       /\ storage[id] \in {COMPLETED, FAILED}
                       /\ Pending(id)

\* C7: a DELETE request for a known id, also one that is still pending and was
\* never dequeued, succeeds and unbinds the id: GET then finds nothing, the
\* heap no longer holds the task and size() no longer counts it
C7_DeleteRemoves ==
    [][\A id \in Ids :
          (ApiDeleteTask(id) /\ get_task(id) # None)
              => /\ delResp' = "200"
                 /\ id \notin DOMAIN tasks'
                 /\ \A k \in 1..Len(heap') : heap'[k] # id
                 /\ InHeap(id) => size' < size]_vars

\* C8: when the worker is done with a task and back at the top of its loop,
\* the store holds that task as completed or failed
C8_WorkerPersistence ==
    (wpc \in {"top", "except", "deq", "exited"} /\ wtask # None)
        => load_task(wtask) \in {COMPLETED, FAILED}

\* C9: the step in which the processor raises leaves the task failed
C9_RaiseMarksFailed ==
    [][(wpc = "process" /\ wpc' \notin {"process", "save"})
          => tasks'[wtask].status = FAILED]_vars

\* C10: once the processor has raised, every task in the queue is eventually
\* taken and processed by the worker loop, unless stop is called
C10_WorkerSurvives ==
    \A i \in 1..MaxTasks :
        (raised /\ InHeap(i)) ~> ((wpc = "process" /\ wtask = i) \/ ~running)

\* after a raise the loop has dequeued another task and is processing it
C10_Witness ==
    /\ raised
    /\ running
    /\ wpc = "process"
    /\ \E j \in Known : j # wtask /\ tasks[j].status = PROCESSING /\ delivered[j] = 1

\* C11: a task whose processing failed is retried through the event bus until
\* its retry counter reaches max_retries: with max_retries = 2 it is attempted
\* (dequeued, processed and persisted as failed) three times in all and never
\* a fourth time.  Every persistence follows one dequeue of the task, so three
\* failed persistences need three deliveries.
C11_RetryEndToEnd ==
    /\ [](\A i \in 1..MaxTasks : delivered[i] <= 3)
    /\ \A i \in 1..MaxTasks : (storage[i] = FAILED) ~> (delivered[i] = 3)

\* retry-handler task_created events in the history for task id
RetryCreated(id) ==
    {k \in 1..Len(event_history) :
        /\ event_history[k].type = TASK_CREATED
        /\ event_history[k].source = "retry_handler"
        /\ event_history[k].task_id = id}

\* C12: the retry handler publishes at most max_retries task_created events
\* for a task id
C12_RetryBound ==
    \A id \in PayloadIds :
        \A k \in 1..Len(event_history) :
            (event_history[k].type = TASK_FAILED /\ event_history[k].task_id = id)
                => Cardinality(RetryCreated(id)) <= event_history[k].max_retries

\* C13: a run of the retry handler on a task_failed event with
\* retry_count < max_retries publishes exactly one task_created event with the
\* same task_id and retry_count + 1; with retry_count >= max_retries it
\* publishes nothing
C13_RetryDecision ==
    [][\A k \in 1..Len(event_history) : HandleTaskFailed(event_history[k]) =>
          LET e == event_history[k]
          IN IF e.retry_count < e.max_retries
             THEN /\ Len(event_history') = Len(event_history) + 1
                  /\ SubSeq(event_history', 1, Len(event_history)) = event_history
                  /\ event_history'[Len(event_history')].type = TASK_CREATED
                  /\ event_history'[Len(event_history')].task_id = e.task_id
                  /\ event_history'[Len(event_history')].retry_count = e.retry_count + 1
             ELSE event_history' = event_history]_vars

\* the handler has run on an exhausted task_failed event and on an eligible
\* one, whose task_created follows it in the history
C13_Witness ==
    \E j, k, n \in 1..Len(event_history) :
        /\ event_history[j].type = TASK_FAILED
        /\ event_history[j].retry_count >= event_history[j].max_retries
        /\ ~BagIn(<<"handle_task_failed", event_history[j]>>, handlerThreads)
        /\ event_history[k].type = TASK_FAILED
        /\ event_history[k].retry_count < event_history[k].max_retries
        /\ ~BagIn(<<"handle_task_failed", event_history[k]>>, handlerThreads)
        /\ n \in RetryCreated(event_history[k].task_id)
        /\ event_history[n].retry_count = event_history[k].retry_count + 1

HealthySet == {healthy_instances[k] : k \in 1..Len(healthy_instances)}

\* C14: while the healthy instances stay the same, the numbers of requests
\* forwarded to any two of them differ by at most one (each has floor(n/k) or
\* ceil(n/k) of the n requests), whatever health check passes ran in between
C14_RoundRobinFairness ==
    \A a, b \in Instances :
        (a \in HealthySet /\ b \in HealthySet) => served[a] - served[b] <= 1

\* C15: forward_request selects only an instance whose status is healthy at
\* that moment, and it answers 503 exactly when no instance is healthy
C15_HealthAwareRouting ==
    [][ForwardRequest =>
          /\ forwarded'.instance # None => istatus[forwarded'.instance] = HEALTHY
          /\ forwarded'.code = "503" <=> (\A i \in Instances : istatus[i] # HEALTHY)]_vars

\* worker loop threads that are alive
WorkerLoops == (IF wpc \in {"nothread", "exited"} THEN 0 ELSE 1) + extraLoops

\* C16: whatever start and stop calls were made, also concurrent ones, at most
\* one worker loop thread is running
C16_StartIdempotent == WorkerLoops <= 1

\* C17: once stop() is blocked in join the loop thread ends; a task the worker
\* holds at that time is brought to completed or failed and persisted before
\* the thread ends; the ended loop dequeues nothing
C17_WorkerStop ==
    /\ joining ~> (wpc = "exited")
    /\ \A i \in 1..MaxTasks :
          (joining /\ wpc \in {"process", "save"} /\ wtask = i)
              ~> (/\ wpc = "exited"
                  /\ i \in Known
                  /\ tasks[i].status \in {COMPLETED, FAILED}
                  /\ load_task(i) \in {COMPLETED, FAILED})
    /\ [][wpc = "exited" => delivered' = delivered]_vars

\* C18: a task the worker received from the remote queue is processed and,
\* unless its processing failed, acknowledged: its message is deleted from the
\* remote queue, and only after the task was persisted
C18_AckAfterSave ==
    /\ [][\A m \in SqsIds : (remote'[m] = "deleted" /\ remote[m] # "deleted")
                               => load_task(m) = COMPLETED]_vars
    /\ \A m \in SqsIds :
          (remote[m] = "inflight")
              ~> (remote[m] = "deleted" \/ load_task(m) = FAILED \/ ~running)

\* C19: a remote dequeue that received a message with a parseable body returns
\* the task, and the mirror holds that task with status processing
C19_RemoteDequeue ==
    [][\A m \in SqsIds : SqsDequeue("message", m) =>
          /\ dret'[Worker] = m
          /\ mirror'[m] = PROCESSING]_vars

\* C20: a remote enqueue whose send fails raises and leaves the mirror as it
\* was; one whose send succeeded ends with the task in the mirror as pending;
\* the mirror never holds a task whose message was not sent
C20_Mirrored == \A i \in SqsIds : mirror[i] # "none" => remote[i] # "none"
C20_EnqueueFailure ==
    /\ []C20_Mirrored
    /\ [][/\ SqsSend(FALSE) => (mirror' = mirror /\ sqsResp' = "raised")
          /\ SqsIndex => (mirror'[epc] = PENDING /\ sqsResp' = "ok")]_vars

\* an enqueue raised after an earlier one had succeeded
C20_Witness ==
    /\ sqsResp = "raised"
    /\ \E i \in SqsIds : mirror[i] = PENDING
    /\ \E i \in SqsIds : mirror[i] = "none"

\* C22: the event history holds at most 1,000 events, and they are the most
\* recently published ones in publication order: the event at position k is
\* the one published Len - k calls before the last
C22_HistoryBound ==
    /\ Len(event_history) <= 1000
    /\ \A k \in 1..Len(event_history) :
          event_history[k].id = published - Len(event_history) + k

\* more than 1,000 events were published and the oldest ones were evicted
C22_Witness ==
    /\ published > 1000
    /\ Len(event_history) = 1000
    /\ event_history[1].id = published - 999

\* C23: a handler that raises changes nothing but its own thread: the event
\* it ran on stays in the history, the publish call that started it has
\* returned its event id, and every other started handler thread is still
\* there to be run
C23_HandlerIsolation ==
    /\ [](\A r \in handlerErrors :
            /\ r[2] \in 1..published
            /\ \E k \in 1..Len(event_history) : event_history[k].id = r[2])
    /\ [][\A t \in DOMAIN handlerThreads : RunHandler(t, FALSE) =>
            /\ event_history' = event_history
            /\ published' = published
            /\ \A u \in DOMAIN handlerThreads :
                  u # t => CopiesIn(u, handlerThreads') = CopiesIn(u, handlerThreads)]_vars

\* both handlers subscribed to the type of an event have raised on it: the
\* second one was run after the first one had raised
C23_Witness ==
    \E k \in 1..Len(event_history) :
        /\ <<"h1", event_history[k].id>> \in handlerErrors
        /\ <<"h2", event_history[k].id>> \in handlerErrors

\* every handler of the program and of its callers
AllHandlers ==
    CallerHandlers \cup UNION {{ModuleSubscribers[ty][k] : k \in 1..Len(ModuleSubscribers[ty])}
                                  : ty \in EventType}
SubscribedTo(ty) == {subscribers[ty][k] : k \in 1..Len(subscribers[ty])}

C21_MirrorRefinesQueue ==
    [][\A id \in SqsIds, s \in TaskStatus : SqsUpdateTaskStatus(id, s) =>
          /\ SqsUpdateReturns(id, s) =
                 (mirror[id] # "none" /\ ~RefusedFrom(mirror[id], s))
          /\ <<mirror[id], mirror'[id]>> \in Edges]_vars

\* C25: an enqueue call with a priority outside 1..5 or a name whose length
\* is outside 1..100 creates no task and leaves the heap and the index as
\* they were
C25_EnqueueValidation ==
    [][\A n \in NameLens, p \in RawPrios :
          (EnqueueCall(n, p) /\ ~(p \in 1..5 /\ n \in 1..100)) =>
              UNCHANGED <<tasks, heap, nextId>>]_vars

\* C26: the size of the queue is the number of tasks of the index whose
\* status is pending
C26_SizeCountsPending == size = Cardinality({i \in Known : Pending(i)})

\* C27: the response to POST /tasks is a 201 that shows the created task
\* with status pending
C27_CreateReturnsPending ==
    [][CreateRead => (CreateResponse.code = 201 /\ CreateResponse.status = PENDING)]_vars

\* C28: PUT /tasks/{id}/status answers 400 to a status that is none of the
\* four values, 400 to a transition the DAG disallows, 404 only to an unknown
\* id, and 200 otherwise
C28_PutStatusCodes ==
    \A id \in 1..MaxTasks, body \in StatusBodies :
        LET code == PutStatusCode(id, body)
            disallowed == /\ id \in Known
                          /\ body \in TaskStatus
                          /\ tasks[id].status # body
                          /\ <<tasks[id].status, body>> \notin Edges
        IN /\ body \notin TaskStatus => code = 400
           /\ disallowed => code = 400
           /\ code = 404 => id \notin Known
           /\ (body \in TaskStatus /\ id \in Known /\ ~disallowed) => code = 200

Limits == 0..MaxTasks
\* C29: GET /tasks answers 200; without a filter it lists the known tasks,
\* with a status filter the tasks of that status, cut to the limit
C29_ListTasks ==
    \A limit \in Limits :
        /\ list_tasks(NoStatus, limit).code = 200
        /\ Len(list_tasks(NoStatus, limit).tasks) = (IF limit < Cardinality(Known) THEN limit
                                                 ELSE Cardinality(Known))
        /\ \A s \in TaskStatus :
              /\ list_tasks(s, limit).code = 200
              /\ Len(list_tasks(s, limit).tasks) <= limit
              /\ \A k \in 1..Len(list_tasks(s, limit).tasks) :
                    tasks[list_tasks(s, limit).tasks[k]].status = s

Blocked(t) == dpc[t] = "waiting" /\ dto[t] = "none"
C33_NoLostWakeup ==
    \A t \in Clients : (Blocked(t) /\ heap # <<>>) ~> (~Blocked(t) \/ heap = <<>>)

\* C34: update_task_status(id, pending) on a failed task sets its status to
\* pending, adds exactly one heap entry for it and wakes one waiting
\* dequeuer; the entry is behind the tasks of the same priority that were
\* already pending, so none of them is still waiting when the re-queued task
\* is returned; the heap never holds the task twice
C34_Requeue ==
    [][/\ \A id \in Ids :
             Requeue(id) =>
                 /\ tasks'[id].status = PENDING
                 /\ HeapCount(id) = 0 /\ HeapCount(id)' = 1
                 /\ Len(heap') = Len(heap) + 1
                 /\ waiters # <<>> => waiters' = Tail(waiters)
       /\ \A i \in Known :
             Returned(i) => \A e \in ahead[i] : delivered[e[1]] > e[2]]_vars

\* C35: a task has at most one outstanding delivery: between a dequeue that
\* returned it and the terminal status write of the thread that got it, no
\* other dequeue returns it
C35_ExclusiveDelivery ==
    \A id \in Known : Outstanding(id) <= 1

\* C36: update_task_status with the status the task already has leaves the
\* heap and the task's status as they were
C36_UpdateIdempotent ==
    [][\A id \in Known, s \in TaskStatus :
          (Update(id, s) /\ tasks[id].status = s)
              => /\ heap' = heap
                 /\ tasks'[id].status = tasks[id].status]_vars

\* C37: replay_events(c) hands to the current subscribers every event of the
\* history whose correlation id is c, each once and oldest first, however
\* many there are, and leaves the history as it is
C37_ReplayAll ==
    [][\A c \in PayloadIds :
          ReplayEvents(c) =>
              /\ replayed' = [k \in 1..Len(Correlated(event_history, c)) |->
                                 Correlated(event_history, c)[k].id]
              /\ handlerThreads' = handlerThreads (+)
                     Started(subscribers, Elements(Correlated(event_history, c)))
              /\ event_history' = event_history]_vars

\* C38: one event published from outside causes at most one further publish,
\* a task_created from the retry or the dependency handler; a handler run on
\* a task_created event publishes nothing; and every handler thread of the
\* cascade ends
C38_Bounded ==
    /\ published <= 2
    /\ \A k \in 2..Len(event_history) :
          /\ event_history[k].type = TASK_CREATED
          /\ event_history[k].source \in {"retry_handler", "dependency_handler"}
C38_FiniteCascade ==
    /\ []C38_Bounded
    /\ [][\A k \in 1..Len(event_history) :
             HandleTaskCreated(event_history[k]) =>
                 published' = published /\ event_history' = event_history]_vars
    /\ <>[](handlerThreads = EmptyBag)

\* a task_completed event of a data_processing task was published, the
\* dependency handler published its task_created, and all handlers have run
C38_Witness ==
    /\ published = 2
    /\ handlerThreads = EmptyBag
    /\ event_history[1].type = TASK_COMPLETED
    /\ event_history[2].source = "dependency_handler"

C40_SingleLoop ==
    Cardinality({l \in LoopIds : Active(l)}) <= 1

\* C32: total_requests = successful_requests + failed_requests in every
\* state, and every forward_request for which an instance was selected adds
\* one to total_requests and one to exactly one of successful_requests (the
\* response is relayed) and failed_requests (the answer is 502)
C32_Balanced ==
    stats.total_requests = stats.successful_requests + stats.failed_requests
C39_CacheAside ==
    [][\A id \in CacheIds :
          GetTaskMetadata(id) =>
              /\ (loaded[id] # <<>> /\ now <= loaded[id][2] + TTL_SECONDS)
                     => /\ dbReads' = dbReads
                        /\ lastGet' = <<id, loaded[id][1], "cache">>
              /\ lastGet'[3] = "cache"
                     => (loaded[id] # <<>> /\ now <= loaded[id][2] + TTL_SECONDS)]_vars

====
